---- MODULE Spec2Model ----
(***************************************************************************)
(* Model of hikari.internal.marshaller.dereference_handle in its two       *)
(* accelerated implementations, marshaller.c and marshaller.cpp.           *)
(*                                                                         *)
(* A C string is a sequence of one-character strings; a pointer into the   *)
(* handle is the suffix it points at.  A heap buffer is a sequence of      *)
(* cells, each a character or NUL; the bytes that follow a buffer in       *)
(* memory, up to the first NUL, are an arbitrary element of Tails.         *)
(* A Python object is the path that names it: <<module_name, attr, ...>>.  *)
(***************************************************************************)
EXTENDS Integers, Sequences, FiniteSets, Bags, TLC

VARIABLES impl, handle, badModule, badAttr,
          pc, calls, outcome, held, oob,
          module, obj, attr_name, temp, run, first

vars == <<impl, handle, badModule, badAttr, pc, calls, outcome, held, oob,
          module, obj, attr_name, temp, run, first>>

\* Longest handle string considered.
MaxLen == 6

Letters == {"a"}
Chars == Letters \cup {".", "#"}
NUL == "NUL"
\* What a cell of freshly allocated memory may hold.
GarbageBytes == {NUL, "a"}
\* What may follow a heap buffer in memory, up to the first NUL byte.
Tails == {<<>>, <<"a">>}
\* Names the environment may lack (<<>> : it lacks none of them).
WorldNames == {<<>>, <<"a">>, <<"a", "a">>}

Handles == UNION {[1..n -> Chars] : n \in 0..MaxLen}

NULL == <<>>
NotFound == -1

----------------------------------------------------------------------------
\* libc / libstdc++ primitives

\* strstr(s, c) for a one-character needle, std::string::find_first_of:
\* the 0-based offset of the first occurrence, or NotFound.
StrStr(s, c) ==
    IF \E i \in 1..Len(s) : s[i] = c
    THEN (CHOOSE i \in 1..Len(s) : s[i] = c /\ \A j \in 1..(i - 1) : s[j] # c) - 1
    ELSE NotFound

\* std::string::substr(0, n)
Prefix(s, n) == SubSeq(s, 1, n)

\* the pointer s + n, std::string::substr(n)
Suffix(s, n) == SubSeq(s, n + 1, Len(s))

\* malloc(n): n cells of unspecified content
Malloc(n) == [1..n -> GarbageBytes]

\* strncpy(dst, src, n): exactly n cells are written, the characters of src
\* and then NUL padding; no terminator is written when strlen(src) >= n.
StrNCpy(dst, src, n) ==
    [i \in 1..Len(dst) |->
        IF i <= n THEN (IF i <= Len(src) THEN src[i] ELSE NUL) ELSE dst[i]]

\* A buffer read as a C string overruns its allocation when it holds no NUL.
ReadsPast(buf) == \A i \in 1..Len(buf) : buf[i] # NUL

\* The C string a reader sees in buf when tail follows the buffer in memory.
CStr(buf, tail) ==
    IF ReadsPast(buf) THEN buf \o tail ELSE Prefix(buf, StrStr(buf, NUL))

----------------------------------------------------------------------------
\* The host environment: importlib.import_module and getattr

ValidModuleName(n) ==
    /\ Len(n) >= 1
    /\ \A i \in 1..Len(n) : n[i] \in Letters \cup {"."}
    /\ n[1] # "." /\ n[Len(n)] # "."
    /\ \A i \in 1..(Len(n) - 1) : ~(n[i] = "." /\ n[i + 1] = ".")

ImportOK(n) == ValidModuleName(n) /\ n # badModule

importModule(n) == IF ImportOK(n) THEN <<n>> ELSE NULL

AttrExists(n) ==
    /\ Len(n) >= 1
    /\ \A i \in 1..Len(n) : n[i] \in Letters
    /\ n # badAttr

getAttribute(o, n) == IF AttrExists(n) THEN Append(o, n) ELSE NULL

NoOutcome == [kind |-> "none", name |-> <<>>, obj |-> NULL]
Ok(o) == [kind |-> "ok", name |-> <<>>, obj |-> o]
ImportError(n) == [kind |-> "ImportError", name |-> n, obj |-> NULL]
AttributeError(o, n) == [kind |-> "AttributeError", name |-> n, obj |-> o]

ImportOutcome(n) == IF ImportOK(n) THEN Ok(<<n>>) ELSE ImportError(n)

ImportCall(n) == [op |-> "import", name |-> n, on |-> NULL, res |-> importModule(n)]
GetAttrCall(o, n) ==
    [op |-> "getattr", name |-> n, on |-> o,
     res |-> IF o = NULL THEN NULL ELSE getAttribute(o, n)]

\* A new reference to o is owned by the caller of the API that returned it.
Acquire(h, o) == IF o = NULL THEN h ELSE h (+) SetToBag({o})
\* Py_DECREF(o)
Release(h, o) == h (-) SetToBag({o})

----------------------------------------------------------------------------
Init ==
    /\ impl \in {"c", "cpp"}
    /\ handle \in Handles
    /\ badModule \in WorldNames
    /\ badAttr \in WorldNames
    /\ pc = "enter"
    /\ calls = <<>>
    /\ outcome = NoOutcome
    /\ held = EmptyBag
    /\ oob = FALSE
    /\ module = NULL
    /\ obj = NULL
    /\ attr_name = <<>>
    /\ temp = <<>>
    /\ run = 1
    /\ first = [calls |-> <<>>, outcome |-> NoOutcome]

\* return <the result of importing n>;
ReturnImport(n) ==
    /\ calls' = Append(calls, ImportCall(n))
    /\ outcome' = ImportOutcome(n)
    /\ held' = Acquire(held, importModule(n))
    /\ pc' = "done"
    /\ UNCHANGED <<impl, handle, badModule, badAttr, oob, module, obj,
                   attr_name, temp, run, first>>

----------------------------------------------------------------------------
\* marshaller.c

\* The test without its NULL check: a handle without '#' takes the split path.
IsModuleOnly_NoNullTest(p) == p # NotFound /\ p <= 1

\* The test without its offset check: a leading '#' takes the split path.
IsModuleOnly_NoOffsetTest(p) == p = NotFound

\* p_strstr == NULL || (p_strstr - handle_str) <= 1
IsModuleOnly(p) == p = NotFound \/ p <= 1

C_ImportWhole ==
    /\ impl = "c" /\ pc = "enter"
    /\ IsModuleOnly(StrStr(handle, "#"))
    /\ ReturnImport(handle)

C_ImportModule ==
    /\ impl = "c" /\ pc = "enter"
    /\ LET module_len == StrStr(handle, "#") IN
       /\ ~IsModuleOnly(module_len)
       /\ \E g \in Malloc(module_len), tail \in Tails :
            LET module_str == StrNCpy(g, handle, module_len)
                name == CStr(module_str, tail)
                m == importModule(name)
            IN /\ oob' = (oob \/ ReadsPast(module_str))
               /\ calls' = Append(calls, ImportCall(name))
               /\ IF m = NULL
                  THEN /\ pc' = "done"
                       /\ outcome' = ImportError(name)
                       /\ UNCHANGED <<module, obj, held, attr_name>>
                  ELSE /\ pc' = "getattr"
                       /\ module' = m
                       /\ obj' = m
                       /\ held' = Acquire(held, m)
                       /\ attr_name' = Suffix(handle, module_len + 1)
                       /\ UNCHANGED outcome
    /\ UNCHANGED <<impl, handle, badModule, badAttr, temp, run, first>>

\* char * temp = malloc(strlen(attr_name) + 1);
C_MallocTemp ==
    /\ impl = "c" /\ pc = "getattr"
    /\ temp' \in Malloc(Len(attr_name) + 1)
    /\ pc' = "loop"
    /\ UNCHANGED <<impl, handle, badModule, badAttr, calls, outcome, held, oob,
                   module, obj, attr_name, run, first>>

\* obj = PyObject_GetAttrString(obj, name), followed by what the caller does
\* next: last is TRUE for the lookup after the loop, which frees temp,
\* releases the module and returns.  A lookup on a NULL object is undefined:
\* the process dies or the call reports failure.
C_GetAttr(name, last) ==
    /\ calls' = Append(calls, GetAttrCall(obj, name))
    /\ IF obj = NULL
       THEN /\ obj' = NULL
            /\ UNCHANGED outcome
            /\ \/ pc' = "crashed" /\ UNCHANGED held
               \/ /\ pc' = (IF last THEN "done" ELSE "loop")
                  /\ held' = (IF last THEN Release(held, module) ELSE held)
       ELSE LET r == getAttribute(obj, name) IN
            /\ obj' = r
            /\ outcome' = (IF r = NULL THEN AttributeError(obj, name)
                           ELSE IF last THEN Ok(r) ELSE outcome)
            /\ held' = (IF last THEN Release(Acquire(held, r), module)
                        ELSE Acquire(held, r))
            /\ pc' = (IF last THEN "done" ELSE "loop")

\* one iteration of while ((delim = strstr(attr_name, ".")))
C_LoopStep ==
    /\ impl = "c" /\ pc = "loop"
    /\ LET delim == StrStr(attr_name, ".") IN
       /\ delim # NotFound
       /\ temp' = StrNCpy(temp, attr_name, delim)
       /\ attr_name' = Suffix(attr_name, delim + 1)
       /\ \E tail \in Tails :
            /\ oob' = (oob \/ ReadsPast(temp') \/ delim > Len(temp))
            /\ C_GetAttr(CStr(temp', tail), FALSE)
    /\ UNCHANGED <<impl, handle, badModule, badAttr, module, run, first>>

\* the lookup after the loop, free(temp), Py_DECREF(module), return result
C_LastGetAttr ==
    /\ impl = "c" /\ pc = "loop"
    /\ StrStr(attr_name, ".") = NotFound
    /\ C_GetAttr(attr_name, TRUE)
    /\ temp' = <<>>
    /\ UNCHANGED <<impl, handle, badModule, badAttr, oob, module, attr_name,
                   run, first>>

----------------------------------------------------------------------------
\* marshaller.cpp

Cpp_ImportWhole ==
    /\ impl = "cpp" /\ pc = "enter"
    /\ StrStr(handle, "#") = NotFound
    /\ ReturnImport(handle)

Cpp_ImportModule ==
    /\ impl = "cpp" /\ pc = "enter"
    /\ LET hash_pos == StrStr(handle, "#") IN
       /\ hash_pos # NotFound
       /\ LET module_name == Prefix(handle, hash_pos)
              module_obj == importModule(module_name)
          IN /\ calls' = Append(calls, ImportCall(module_name))
             /\ held' = Acquire(held, module_obj)
             /\ IF module_obj = NULL
                THEN /\ pc' = "done"
                     /\ outcome' = ImportError(module_name)
                     /\ UNCHANGED <<module, obj, attr_name>>
                ELSE /\ pc' = "loop"
                     /\ module' = module_obj
                     /\ obj' = module_obj
                     /\ attr_name' = Suffix(handle, hash_pos + 1)
                     /\ UNCHANGED outcome
    /\ UNCHANGED <<impl, handle, badModule, badAttr, oob, temp, run, first>>

\* std::getline(stream, token, '.') extracts something unless the stream is
\* at its end.
GetLineOK(s) == Len(s) > 0
GetLineToken(s) == IF StrStr(s, ".") = NotFound THEN s ELSE Prefix(s, StrStr(s, "."))
GetLineRest(s) == IF StrStr(s, ".") = NotFound THEN <<>> ELSE Suffix(s, StrStr(s, ".") + 1)

Cpp_GetToken ==
    /\ impl = "cpp" /\ pc = "loop"
    /\ GetLineOK(attr_name)
    /\ LET token == GetLineToken(attr_name)
           target == getAttribute(obj, token)
       IN /\ attr_name' = GetLineRest(attr_name)
          /\ calls' = Append(calls, GetAttrCall(obj, token))
          /\ obj' = target
          /\ held' = Acquire(held, target)
          /\ IF target = NULL
             THEN pc' = "done" /\ outcome' = AttributeError(obj, token)
             ELSE pc' = "loop" /\ UNCHANGED outcome
    /\ UNCHANGED <<impl, handle, badModule, badAttr, oob, module, temp, run, first>>

Cpp_Return ==
    /\ impl = "cpp" /\ pc = "loop"
    /\ ~GetLineOK(attr_name)
    /\ pc' = "done"
    /\ outcome' = Ok(obj)
    /\ UNCHANGED <<impl, handle, badModule, badAttr, calls, held, oob, module,
                   obj, attr_name, temp, run, first>>

----------------------------------------------------------------------------
\* The caller invokes dereference_handle a second time with the same handle
\* against the same module state.
CallAgain ==
    /\ pc = "done" /\ run = 1
    /\ first' = [calls |-> calls, outcome |-> outcome]
    /\ run' = 2
    /\ pc' = "enter"
    /\ calls' = <<>>
    /\ outcome' = NoOutcome
    /\ held' = EmptyBag
    /\ oob' = FALSE
    /\ module' = NULL
    /\ obj' = NULL
    /\ attr_name' = <<>>
    /\ temp' = <<>>
    /\ UNCHANGED <<impl, handle, badModule, badAttr>>

Next ==
    \/ C_ImportWhole
    \/ C_ImportModule
    \/ C_MallocTemp
    \/ C_LoopStep
    \/ C_LastGetAttr
    \/ Cpp_ImportWhole
    \/ Cpp_ImportModule
    \/ Cpp_GetToken
    \/ Cpp_Return

Spec == Init /\ [][Next]_vars

NextTwice == Next \/ CallAgain

SpecTwice == Init /\ [][NextTwice]_vars

----------------------------------------------------------------------------
\* The parts of a handle, as the handle format defines them

HashPos == StrStr(handle, "#")
ModuleRef == Prefix(handle, HashPos)
Chain == Suffix(handle, HashPos + 1)

RECURSIVE Segments(_)
Segments(s) ==
    IF StrStr(s, ".") = NotFound THEN <<s>>
    ELSE <<Prefix(s, StrStr(s, "."))>> \o Segments(Suffix(s, StrStr(s, ".") + 1))

Returned == pc = "done"
Ended == pc \in {"done", "crashed"}

\* The calls of a left-to-right walk of segs from module m.
WalkCalls(m, segs) ==
    <<ImportCall(m)>> \o
    [i \in 1..Len(segs) |-> GetAttrCall(<<m>> \o SubSeq(segs, 1, i - 1), segs[i])]

IsIdentifier(n) == Len(n) >= 1 /\ \A i \in 1..Len(n) : n[i] \in Letters

\* module.path#attr.chain with a non-empty chain of identifiers
WellFormed ==
    /\ HashPos >= 1
    /\ ValidModuleName(ModuleRef)
    /\ Len(Chain) >= 1
    /\ \A i \in 1..Len(Segments(Chain)) : IsIdentifier(Segments(Chain)[i])

Resolvable ==
    /\ WellFormed
    /\ ImportOK(ModuleRef)
    /\ \A i \in 1..Len(Segments(Chain)) : AttrExists(Segments(Chain)[i])

\* C1: a handle m#s1...sn whose module imports and whose attributes all exist
\* resolves, in both implementations, to the object reached by looking up
\* s1, ..., sn in order from the module, each lookup receiving exactly the
\* text of its segment.
C1_SequentialLookup ==
    (Ended /\ Resolvable) =>
        /\ Returned
        /\ calls = WalkCalls(ModuleRef, Segments(Chain))
        /\ outcome = Ok(<<ModuleRef>> \o Segments(Chain))

\* C2: a handle without '#' makes exactly one importModule call, with the
\* whole handle, makes no attribute lookup, and returns that call's outcome.
C2_NoHashImportsWhole ==
    HashPos = NotFound =>
        /\ pc \in {"enter", "done"}
        /\ \A i \in 1..Len(calls) : calls[i].op = "import"
        /\ Returned => /\ calls = <<ImportCall(handle)>>
                       /\ outcome = ImportOutcome(handle)

C2_Witness ==
    /\ Returned /\ HashPos = NotFound /\ Len(handle) >= 2
    /\ outcome.kind = "ok" /\ impl = "c"

\* C3: a handle m# with a non-empty m and nothing after the '#' returns the
\* outcome of importModule(m); the importer receives m without the '#' and
\* no attribute lookup is made.
C3_TrailingHashIgnored ==
    (Ended /\ HashPos = Len(handle) - 1 /\ ValidModuleName(ModuleRef)) =>
        /\ Returned
        /\ calls = <<ImportCall(ModuleRef)>>
        /\ outcome = ImportOutcome(ModuleRef)

\* C4: when the first '#' is at index k >= 1 the importer is called with
\* exactly the k characters before it, never with the '#' or the text after.
C4_ImportsModuleReference ==
    (HashPos >= 1 /\ ValidModuleName(ModuleRef)) =>
        /\ \A i \in 1..Len(calls) :
              calls[i].op = "import" => (i = 1 /\ calls[i].name = ModuleRef)
        /\ Ended => Len(calls) >= 1 /\ calls[1].op = "import"

\* C5: the first attribute lookup that fails ends the call with the error of
\* that segment; no lookup is made after it.
C5_StopsAtFirstFailure ==
    (WellFormed /\ ImportOK(ModuleRef)) =>
    \A i \in 1..Len(calls) :
        (calls[i].op = "getattr" /\ calls[i].res = NULL) =>
            /\ i = Len(calls)
            /\ pc # "crashed"
            /\ Returned => outcome = AttributeError(calls[i].on, calls[i].name)

Malformed ==
    \/ HashPos = 0
    \/ /\ HashPos >= 1
       /\ Len(Chain) >= 1
       /\ \E i \in 1..Len(Segments(Chain)) : Segments(Chain)[i] = <<>>

C7_ImportErrorPropagates ==
    (WellFormed /\ ~ImportOK(ModuleRef)) =>
        /\ \A i \in 1..Len(calls) : calls[i].op = "import"
        /\ pc # "crashed"
        /\ Returned => outcome = ImportError(ModuleRef)

\* C8: a second call with the same handle against the same module state
\* issues the same calls and yields the same outcome as the first, whatever
\* the scratch buffers held.
C8_Deterministic ==
    (run = 2 /\ Ended /\ WellFormed) =>
        /\ Returned
        /\ calls = first.calls
        /\ outcome = first.outcome

\* C9: when the call returns, every reference it acquired has been released
\* except the one to the result handed to the caller on success.
C9_NoReferenceRetained ==
    (Returned /\ (WellFormed \/ HashPos = NotFound)) =>
        held = (IF outcome.kind = "ok" THEN SetToBag({outcome.obj}) ELSE EmptyBag)

\* C10: in marshaller.c no name buffer is read or written at or past its
\* allocated size.
C10_BuffersTerminated == (impl = "c" /\ WellFormed) => ~oob

====
